---- MODULE Spec2Model ----
(***************************************************************************)
(* Model of .github/scripts/merge_sensor_data.py: the merge of the         *)
(* data/sensor_*.csv snapshot files into data/sensor_data_combined.csv and *)
(* the keep-newest-count retention that follows it.                        *)
(*                                                                         *)
(* Paths are numbered in their lexical order.  A file is a record          *)
(* [exists, readable, rows]: readable says whether pd.read_csv returns a   *)
(* DataFrame for it (a header-only file is readable with zero rows; a      *)
(* zero-byte or dangling file is not).  A row is [t, v]: t is the          *)
(* timestamp column (NaN when the field is empty), v stands for all the    *)
(* other columns.                                                          *)
(***************************************************************************)
EXTENDS Integers, Sequences, FiniteSets, TLC

\* ---------------------------------------------------------------- bounds
\* Valid row timestamps are 1..MaxTs.
MaxTs == 2
\* Rows per snapshot file when the merge is checked alone (SpecMerge).
MaxRows == 2
\* Instants a commit time or a modification time can be: 1..MaxTime.
MaxTime == 2
\* files_to_keep is 1..MaxKeep.
MaxKeep == 2
\* The age policy's max-age H is 0..MaxAge.
MaxAge == 1

\* ------------------------------------------------------------- constants
\* The missing value pandas puts in the timestamp column of a row whose
\* field is empty; valid timestamps are 1..MaxTs.
NaN == 0
\* get_git_commit_time's None / a failed os.path.getmtime, among instants
\* 1..MaxTime.
None == 0
Values == {"A", "B"}
\* data/sensor_data_combined.csv, in lexical order among the glob's matches:
\* sensor_1.csv < sensor_data_combined.csv < sensor_z.csv.
Combined == 2
SensorFiles == {1, 3}
\* Every path that matches data/sensor_*.csv.
Paths == SensorFiles \cup {Combined}

Rows == [t : 0..MaxTs, v : Values]

VARIABLES
  pc,                 \* position of the process
  fs,                 \* the data directory: path -> file
  fs0,                \* the data directory when the run started
  files_to_keep,      \* the files_to_keep argument of the cleanup
  files,              \* merge_sensor_files' files
  dfs,                \* merge_sensor_files' dfs
  readErrors,         \* files whose "Error reading" line was printed
  combined,           \* merge_sensor_files' combined DataFrame
  written,            \* to_csv has returned
  cwd,                \* the process's working directory
  original_cwd,       \* the cleanup's original_cwd
  repo_root,          \* the cleanup's repo_root
  cutoff,             \* the age policy's cutoff instant (None: not computed)
  globbed,            \* the cleanup's files, in glob order
  probes,             \* what the VCS and the filesystem answered per file
  file_info,          \* the cleanup's file_info
  files_to_delete,    \* the cleanup's files_to_delete
  files_to_keep_list, \* the cleanup's files_to_keep_list
  deleted,            \* files os.remove removed in this run
  deleteErrors,       \* files whose "Error deleting" line was printed
  pushError,          \* __main__ printed that the commit or push failed
  error,              \* why the run failed ("" while it has not)
  exitCode            \* the process's exit status (-1 while it runs)

vars == <<pc, fs, fs0, files_to_keep, files, dfs, readErrors, combined, written,
          globbed, probes, file_info, files_to_delete, files_to_keep_list,
          deleted, deleteErrors, error, exitCode, cwd, original_cwd,
          repo_root, cutoff, pushError>>

mergeVars == <<files, dfs, readErrors, combined, written>>
dirVars == <<cwd, original_cwd, repo_root>>
cleanupVars == <<globbed, probes, file_info, files_to_delete,
                 files_to_keep_list, deleted, deleteErrors, cwd, original_cwd,
                 repo_root, cutoff, pushError>>

\* ---------------------------------------------------------------- helpers
SeqsUpTo(S, n) == UNION {[1..k -> S] : k \in 0..n}

Range(s) == {s[i] : i \in DOMAIN s}

Remove(s, i) == SubSeq(s, 1, i - 1) \o SubSeq(s, i + 1, Len(s))

RECURSIVE Flatten(_)
Flatten(ss) == IF ss = <<>> THEN <<>> ELSE Head(ss) \o Flatten(Tail(ss))

\* The paths of S in ascending lexical order.
RECURSIVE SortedPaths(_)
SortedPaths(S) ==
  IF S = {} THEN <<>>
  ELSE LET m == CHOOSE x \in S : \A y \in S : x <= y
       IN <<m>> \o SortedPaths(S \ {m})

\* Every ordering of the set S.
RECURSIVE Orderings(_)
Orderings(S) ==
  IF S = {} THEN {<<>>}
  ELSE UNION {{<<x>> \o o : o \in Orderings(S \ {x})} : x \in S}

Absent == [exists |-> FALSE, readable |-> FALSE, rows |-> <<>>]
Unreadable == [exists |-> TRUE, readable |-> FALSE, rows |-> <<>>]
File(rows) == [exists |-> TRUE, readable |-> TRUE, rows |-> rows]

Contents(n) == {Absent, Unreadable} \cup {File(r) : r \in SeqsUpTo(Rows, n)}

\* What a snapshot file is when the whole run is checked (Spec): missing,
\* unreadable, header-only or one row of one sensor value.  Longer files and
\* rows that differ in their value are merged in SpecMerge.
RunContents ==
  {Absent, Unreadable, File(<<>>)}
    \cup {File(<<r>>) : r \in {x \in Rows : x.v = "A"}}

\* glob.glob: the paths of the pattern that exist.
Glob(f) == {p \in Paths : f[p].exists}

\* ------------------------------------------------------------------ merge
\* pd.concat(dfs, ignore_index=True)
Concat(ds) == Flatten(ds)

\* A drop_duplicates(subset=["timestamp"]): rows are compared by timestamp
\* alone.
RECURSIVE DropDuplicatesByTimestamp(_)
DropDuplicatesByTimestamp(s) ==
  IF s = <<>> THEN <<>>
  ELSE LET init == DropDuplicatesByTimestamp(SubSeq(s, 1, Len(s) - 1))
           last == s[Len(s)]
       IN IF \E r \in Range(init) : r.t = last.t THEN init ELSE Append(init, last)

\* DataFrame.drop_duplicates: keep="first" over all columns; pandas counts
\* two NaN as equal.
RECURSIVE DropDuplicates(_)
DropDuplicates(s) ==
  IF s = <<>> THEN <<>>
  ELSE LET init == DropDuplicates(SubSeq(s, 1, Len(s) - 1))
           last == s[Len(s)]
       IN IF last \in Range(init) THEN init ELSE Append(init, last)

\* The order sort_values puts on the timestamp column: ascending, NaN last
\* (na_position="last").
KeyBefore(a, b) == a.t # NaN /\ (b.t = NaN \/ a.t < b.t)

\* DataFrame.sort_values(by=["timestamp"]) sorts one column with the default
\* kind="quicksort", which is not stable: every arrangement in key order is
\* a possible outcome.
RECURSIVE SortValues(_)
SortValues(s) ==
  IF s = <<>> THEN {<<>>}
  ELSE UNION {{<<s[i]>> \o r : r \in SortValues(Remove(s, i))} :
              i \in {i \in DOMAIN s : \A j \in DOMAIN s : ~KeyBefore(s[j], s[i])}}

\* Directories: the one the script is started in, the repository's top
\* level, and the value of a variable that names none (None).
StartDir == "start"
RootDir == "toplevel"
NoDir == "None"

\* ------------------------------------------------------------------- init
InitRun ==
  /\ pc = "Idle"
  /\ files = <<>>
  /\ dfs = <<>>
  /\ readErrors = {}
  /\ combined = <<>>
  /\ written = FALSE
  /\ cwd = StartDir
  /\ original_cwd = NoDir
  /\ repo_root = NoDir
  /\ cutoff = None
  /\ pushError = FALSE
  /\ globbed = <<>>
  /\ probes = [p \in Paths |-> [tracked |-> FALSE, commit |-> None, mtime |-> None]]
  /\ file_info = <<>>
  /\ files_to_delete = <<>>
  /\ files_to_keep_list = <<>>
  /\ deleted = {}
  /\ deleteErrors = {}
  /\ error = ""
  /\ exitCode = -1

\* A first run: the snapshot files are there, the canonical file is not yet.
Init ==
  /\ InitRun
  /\ fs \in {f \in [Paths -> RunContents] : f[Combined] = Absent}
  /\ fs0 = fs
  /\ files_to_keep \in 1..MaxKeep

InitMerge ==
  /\ InitRun
  /\ fs \in {f \in [Paths -> Contents(MaxRows)] : f[Combined] = Absent}
  /\ fs0 = fs
  /\ files_to_keep = MaxKeep

\* A __main__ that reports the failure and ends normally.
ExitStatusAlwaysZero(ok) == 0

\* __main__, lines 150 and 174-176: exit(1) when merge_sensor_files returns
\* False, the end of the script (status 0) when it returns True.  An
\* exception nothing catches also ends the interpreter with status 1.
ExitStatus(ok) == IF ok THEN 0 ELSE 1

\* ---------------------------------------------------------------- actions
\* merge_sensor_files, lines 114-118: the sorted glob; no file ends the run
\* with False, which __main__ turns into exit(1).
Discover ==
  /\ pc = "Idle"
  /\ files' = SortedPaths(Glob(fs))
  /\ IF files' = <<>>
       THEN pc' = "Failed" /\ error' = "NoFiles" /\ exitCode' = ExitStatus(FALSE)
       ELSE pc' = "Merging" /\ UNCHANGED <<error, exitCode>>
  /\ UNCHANGED <<fs, fs0, files_to_keep, dfs, readErrors, combined, written>>
  /\ UNCHANGED cleanupVars

\* The DataFrames read_csv returns for the files in order, skipping the
\* files it raises on.
RECURSIVE ReadAll(_, _)
ReadAll(f, fl) ==
  IF fl = <<>> THEN <<>>
  ELSE IF f[Head(fl)].readable
         THEN <<f[Head(fl)].rows>> \o ReadAll(f, Tail(fl))
         ELSE ReadAll(f, Tail(fl))

\* lines 120-131: the read loop; no DataFrame ends the run with False.
Load ==
  /\ pc = "Merging"
  /\ dfs' = ReadAll(fs, files)
  /\ readErrors' = {p \in Range(files) : ~fs[p].readable}
  /\ IF dfs' = <<>>
       THEN pc' = "Failed" /\ error' = "NoValidData" /\ exitCode' = ExitStatus(FALSE)
       ELSE pc' = "Loaded" /\ UNCHANGED <<error, exitCode>>
  /\ UNCHANGED <<fs, fs0, files_to_keep, files, combined, written>>
  /\ UNCHANGED cleanupVars

\* lines 133-136: concat, drop_duplicates, sort_values.
Combine ==
  /\ pc = "Loaded"
  /\ combined' \in SortValues(DropDuplicates(Concat(dfs)))
  /\ pc' = "Combined"
  /\ UNCHANGED <<fs, fs0, files_to_keep, files, dfs, readErrors, written, error, exitCode>>
  /\ UNCHANGED cleanupVars

\* lines 139-140: to_csv returns; the canonical file holds combined.
WriteOk ==
  /\ pc = "Combined"
  /\ fs' = [fs EXCEPT ![Combined] = File(combined)]
  /\ written' = TRUE
  /\ pc' = "Written"
  /\ UNCHANGED <<fs0, files_to_keep, files, dfs, readErrors, combined, error, exitCode>>
  /\ UNCHANGED cleanupVars

\* A write whose exception is caught and reported, the run going on to the
\* cleanup.
WriteFailSwallowed ==
  /\ pc = "Combined"
  /\ fs' = [fs EXCEPT ![Combined] = Unreadable]
  /\ pc' = "Written"
  /\ error' = "WriteError"
  /\ UNCHANGED <<fs0, files_to_keep, files, dfs, readErrors, combined, written, exitCode>>
  /\ UNCHANGED cleanupVars

\* lines 139-140: makedirs or to_csv raises; nothing catches it, the
\* interpreter exits with status 1.  The file is as it was (it could not be
\* opened) or cut short (opened, then the write failed).
WriteFail ==
  /\ pc = "Combined"
  /\ \E k \in -1..Len(combined) - 1 :
       fs' = [fs EXCEPT ![Combined] =
                IF k = -1 THEN fs[Combined]
                ELSE IF k = 0 THEN Unreadable
                ELSE File(SubSeq(combined, 1, k))]
  /\ pc' = "Failed"
  /\ error' = "WriteError"
  /\ exitCode' = ExitStatus(FALSE)
  /\ UNCHANGED <<fs0, files_to_keep, files, dfs, readErrors, combined, written>>
  /\ UNCHANGED cleanupVars

\* ---------------------------------------------------------------- cleanup
GitSource == "Git commit time"
FsSource == "Filesystem modification time (untracked or Git lookup failed)"

\* What the outside answers for one file: is_git_tracked's result, the
\* instant get_git_commit_time returns (None when it fails or is not asked)
\* and the instant os.path.getmtime returns (None when it raises or is not
\* asked).  getmtime is asked only when there is no commit time.
ProbeOutcomes ==
  {[tracked |-> FALSE, commit |-> None, mtime |-> m] : m \in 0..MaxTime}
  \cup {[tracked |-> TRUE, commit |-> c, mtime |-> None] : c \in 1..MaxTime}
  \cup {[tracked |-> TRUE, commit |-> None, mtime |-> m] : m \in 0..MaxTime}

NotAsked == [tracked |-> FALSE, commit |-> None, mtime |-> None]

\* A loop that gives the file without any timestamp the epoch instead of
\* leaving it out.
FileInfoEntryEpoch(path, probe) ==
  IF probe.tracked /\ probe.commit # None
    THEN <<[ts |-> [t |-> probe.commit, aware |-> TRUE],
            path |-> path, source |-> "Git commit time"]>>
  ELSE <<[ts |-> [t |-> probe.mtime, aware |-> FALSE], path |-> path,
          source |-> "Filesystem modification time (untracked or Git lookup failed)"]>>

\* lines 68-86, one file: the file_info entries it adds (one or none).
\* datetime.fromisoformat of git's iso-strict date carries its UTC offset
\* (aware); datetime.fromtimestamp is naive.  A getmtime that raises is
\* caught at line 85 and the file is left out.
FileInfoEntry(path, probe) ==
  IF probe.tracked /\ probe.commit # None
    THEN <<[ts |-> [t |-> probe.commit, aware |-> TRUE],
            path |-> path, source |-> GitSource]>>
  ELSE IF probe.mtime # None
    THEN <<[ts |-> [t |-> probe.mtime, aware |-> FALSE],
            path |-> path, source |-> FsSource]>>
  ELSE <<>>

\* lines 67-86: the loop over files in glob order.
RECURSIVE BuildFileInfo(_, _)
BuildFileInfo(fl, pr) ==
  IF fl = <<>> THEN <<>>
  ELSE FileInfoEntry(Head(fl), pr[Head(fl)]) \o BuildFileInfo(Tail(fl), pr)

\* lines 50-65: the glob, which returns the matches in directory order
\* (arbitrary), and git rev-parse --show-toplevel.  It names the top level
\* and the process moves there; or it exits non-zero and repo_root falls
\* back to original_cwd; or it raises (no git, timeout) and line 88 catches
\* that with repo_root still None.
EnterCleanup ==
  /\ pc = "Written"
  /\ globbed' \in Orderings(Glob(fs))
  /\ original_cwd' = cwd
  /\ \E revParse \in {"toplevel", "nonzero", "raises"} :
       /\ repo_root' = CASE revParse = "toplevel" -> RootDir
                         [] revParse = "nonzero" -> cwd
                         [] OTHER -> NoDir
       /\ cwd' = IF revParse = "toplevel" THEN RootDir ELSE cwd
  /\ pc' = "InCleanup"
  /\ UNCHANGED <<fs, fs0, files_to_keep, probes, file_info, files_to_delete,
                 files_to_keep_list, deleted, deleteErrors, cutoff, pushError,
                 error, exitCode>>
  /\ UNCHANGED mergeVars

\* A cleanup without the finally clause: the process stays where it is.
CwdNotRestored(orig, current) == current

\* line 91, the finally clause: os.chdir(original_cwd).
CwdAfterFinally(orig, current) == orig

\* What the outside can answer in this cleanup.  With no repository found
\* (rev-parse exited non-zero or raised) git ls-files reports no file as
\* tracked; a file that is not there is not asked about.
Answers(present, root) ==
  {pr \in [Paths -> ProbeOutcomes] :
     /\ \A p \in Paths \ present : pr[p] = NotAsked
     /\ root # RootDir => \A p \in Paths : ~pr[p].tracked}

\* lines 67-91: the loop over the files, skipped when rev-parse raised, and
\* the finally clause.  probes holds what the outside answers for each file
\* (when the loop is skipped: what it would have answered).
BuildCatalog ==
  /\ pc = "InCleanup"
  /\ probes' \in Answers(Range(globbed), repo_root)
  /\ file_info' = IF repo_root = NoDir THEN <<>>
                  ELSE BuildFileInfo(globbed, probes')
  /\ cwd' = CwdAfterFinally(original_cwd, cwd)
  /\ pc' = "Cataloged"
  /\ UNCHANGED <<fs, fs0, files_to_keep, globbed, original_cwd, repo_root,
                 files_to_delete, files_to_keep_list, deleted, deleteErrors,
                 cutoff, pushError, error, exitCode>>
  /\ UNCHANGED mergeVars

\* Comparing an aware with a naive datetime raises TypeError; a sort of two
\* or more keys of both kinds meets such a pair.
SortRaises(info) ==
  \E i, j \in DOMAIN info : info[i].ts.aware # info[j].ts.aware

\* list.sort(key=lambda x: x[0], reverse=True): descending by timestamp,
\* stable (entries with equal timestamps keep their order in the list).
RECURSIVE SortNewestFirst(_)
SortNewestFirst(info) ==
  IF info = <<>> THEN <<>>
  ELSE LET i == CHOOSE i \in DOMAIN info :
                  /\ \A j \in DOMAIN info : info[j].ts.t <= info[i].ts.t
                  /\ \A j \in 1..(i - 1) : info[j].ts.t < info[i].ts.t
       IN <<info[i]>> \o SortNewestFirst(Remove(info, i))

\* file_info[files_to_keep:]
DeleteSlice(info, n) == SubSeq(info, n + 1, Len(info))

\* file_info[:files_to_keep]
KeepSlice(info, n) == SubSeq(info, 1, IF n < Len(info) THEN n ELSE Len(info))

\* lines 93-98: the sort and the two slices.
Partition ==
  /\ pc = "Cataloged"
  /\ ~SortRaises(file_info)
  /\ file_info' = SortNewestFirst(file_info)
  /\ files_to_delete' = DeleteSlice(file_info', files_to_keep)
  /\ files_to_keep_list' = KeepSlice(file_info', files_to_keep)
  /\ pc' = "Partitioned"
  /\ UNCHANGED <<fs, fs0, files_to_keep, globbed, probes, deleted, deleteErrors,
                 cutoff, pushError, error, exitCode>>
  /\ UNCHANGED dirVars
  /\ UNCHANGED mergeVars

\* line 94 raises TypeError outside every try: the exception leaves
\* cleanup_sensor_files_by_count, merge_sensor_files and __main__, and the
\* interpreter exits with status 1.
SortFail ==
  /\ pc = "Cataloged"
  /\ SortRaises(file_info)
  /\ pc' = "Failed"
  /\ error' = "TypeError"
  /\ exitCode' = ExitStatus(FALSE)
  /\ UNCHANGED <<fs, fs0, files_to_keep>>
  /\ UNCHANGED cleanupVars
  /\ UNCHANGED mergeVars

PathsOf(info) == {info[i].path : i \in DOMAIN info}

\* A delete loop without its try: the first os.remove that raises ends the
\* run.
DeleteFilesUnguarded ==
  /\ pc = "Partitioned"
  /\ \E failing \in SUBSET PathsOf(files_to_delete) :
       /\ deleteErrors' = failing
       /\ deleted' = IF failing = {} THEN PathsOf(files_to_delete) ELSE {}
       /\ fs' = [p \in Paths |-> IF p \in deleted' THEN Absent ELSE fs[p]]
       /\ IF failing = {}
            THEN pc' = "RetentionApplied" /\ UNCHANGED <<error, exitCode>>
            ELSE pc' = "Failed" /\ error' = "OSError" /\ exitCode' = 1
  /\ UNCHANGED <<fs0, files_to_keep, globbed, probes, file_info, files_to_delete,
                 files_to_keep_list, cutoff, pushError>>
  /\ UNCHANGED dirVars
  /\ UNCHANGED mergeVars

\* lines 104-110: os.remove on every entry of files_to_delete; one that
\* raises is reported and the loop goes on.
DeleteFiles ==
  /\ pc = "Partitioned"
  /\ \E failing \in SUBSET PathsOf(files_to_delete) :
       /\ deleteErrors' = failing
       /\ deleted' = PathsOf(files_to_delete) \ failing
       /\ fs' = [p \in Paths |-> IF p \in deleted' THEN Absent ELSE fs[p]]
  /\ pc' = "RetentionApplied"
  /\ UNCHANGED <<fs0, files_to_keep, globbed, probes, file_info, files_to_delete,
                 files_to_keep_list, cutoff, pushError, error, exitCode>>
  /\ UNCHANGED dirVars
  /\ UNCHANGED mergeVars

\* A __main__ that lets a failed commit or push end the process with
\* status 1.
ExitAfterPushFatal(failed) == IF failed THEN 1 ELSE 0

\* lines 153-173: a CalledProcessError or FileNotFoundError of the git
\* commands is caught and printed; the script then ends normally.
ExitAfterPush(failed) == ExitStatus(TRUE)

\* lines 146-173: merge_sensor_files returns True; __main__ configures git,
\* stages data/, commits and pushes (or finds nothing to commit), any of
\* which may fail, and the script ends.
Finish ==
  /\ pc = "RetentionApplied"
  /\ pc' = "Done"
  /\ pushError' \in BOOLEAN
  /\ exitCode' = ExitAfterPush(pushError')
  /\ UNCHANGED <<fs, fs0, files_to_keep, error, globbed, probes, file_info,
                 files_to_delete, files_to_keep_list, deleted, deleteErrors,
                 cutoff>>
  /\ UNCHANGED dirVars
  /\ UNCHANGED mergeVars

\* ------------------------------------------------------ age-cutoff policy
\* The age-cutoff strategy of the retention policy (max-age-hours H and a
\* reference instant now).  The script modelled above has only the
\* keep-newest-count strategy; this part follows the policy's description.

\* A policy whose cutoff is inclusive.
OlderThanCutoffInclusive(ts, cut) == ts <= cut

\* Strictly older than the cutoff.
OlderThanCutoff(ts, cut) == ts < cut

\* The entries of the catalog the age policy deletes / keeps.
RECURSIVE AgeDeleteList(_, _)
AgeDeleteList(info, cut) ==
  IF info = <<>> THEN <<>>
  ELSE (IF OlderThanCutoff(Head(info).ts.t, cut) THEN <<Head(info)>> ELSE <<>>)
         \o AgeDeleteList(Tail(info), cut)

RECURSIVE AgeKeepList(_, _)
AgeKeepList(info, cut) ==
  IF info = <<>> THEN <<>>
  ELSE (IF OlderThanCutoff(Head(info).ts.t, cut) THEN <<>> ELSE <<Head(info)>>)
         \o AgeKeepList(Tail(info), cut)

\* The partition under the age policy: the cutoff is now - H, with now not
\* before the latest instant a file can carry.
AgePartition ==
  /\ pc = "Cataloged"
  /\ \E now \in MaxTime..(MaxTime + 1), H \in 0..MaxAge : cutoff' = now - H
  /\ files_to_delete' = AgeDeleteList(file_info, cutoff')
  /\ files_to_keep_list' = AgeKeepList(file_info, cutoff')
  /\ pc' = "Partitioned"
  /\ UNCHANGED <<fs, fs0, files_to_keep, globbed, probes, file_info, deleted,
                 deleteErrors, pushError, error, exitCode>>
  /\ UNCHANGED dirVars
  /\ UNCHANGED mergeVars

\* A run under the age policy over header-only snapshot files.
InitAge ==
  /\ InitRun
  /\ fs \in {f \in [Paths -> {Absent, File(<<>>)}] : f[Combined] = Absent}
  /\ fs0 = fs
  /\ files_to_keep = MaxKeep

NextAge ==
  \/ Discover \/ Load \/ Combine \/ WriteOk \/ WriteFail
  \/ EnterCleanup \/ BuildCatalog \/ AgePartition \/ DeleteFiles \/ Finish

SpecAge == InitAge /\ [][NextAge]_vars

\* merge_sensor_files up to the write of the canonical file.
NextMerge == Discover \/ Load \/ Combine \/ WriteOk \/ WriteFail

SpecMerge == InitMerge /\ [][NextMerge]_vars

\* What an earlier run over the snapshot files of f wrote as the canonical
\* file (lines 114-140 over those files alone).
PreviousOutputs(f) ==
  LET ds == ReadAll(f, SortedPaths(Glob(f) \cap SensorFiles))
  IN IF ds = <<>> THEN {} ELSE SortValues(DropDuplicates(Concat(ds)))

\* A later run: the snapshot files of an earlier run are still there, and so
\* is the canonical file that run wrote, which matches the glob pattern too.
InitRemerge ==
  /\ InitRun
  /\ \E f \in {g \in [Paths -> Contents(MaxRows)] : g[Combined] = Absent} :
       \E c \in PreviousOutputs(f) : fs = [f EXCEPT ![Combined] = File(c)]
  /\ fs0 = fs
  /\ files_to_keep = MaxKeep

SpecRemerge == InitRemerge /\ [][NextMerge]_vars

\* One run of the script.
Next ==
  \/ Discover \/ Load \/ Combine \/ WriteOk \/ WriteFail
  \/ EnterCleanup \/ BuildCatalog \/ Partition \/ SortFail \/ DeleteFiles
  \/ Finish

Spec == Init /\ [][Next]_vars

\* ----------------------------------------------------------------- claims
\* The canonical file's rows.
Canonical == fs[Combined].rows

\* The files read_csv loads in this run, and their rows.
LoadedFiles == {p \in Paths : fs0[p].readable}
LoadedRows == UNION {Range(fs0[p].rows) : p \in LoadedFiles}

\* The rows of the loaded files, files in ascending path order, rows in
\* file order.
RECURSIVE RowsInOrder(_)
RowsInOrder(fl) ==
  IF fl = <<>> THEN <<>> ELSE fs0[Head(fl)].rows \o RowsInOrder(Tail(fl))
ConcatOrder == RowsInOrder(SortedPaths(LoadedFiles))

\* The place of row r's first occurrence in sequence s.
FirstAt(s, r) == CHOOSE i \in DOMAIN s : s[i] = r /\ \A j \in 1..(i - 1) : s[j] # r

\* Files os.remove has taken out of the directory since the run started.
Removed == {p \in Paths : fs0[p].exists /\ ~fs[p].exists}

\* C1: no file is deleted before the canonical dataset has been written:
\* whenever a file is gone or in the delete-list, to_csv has returned; and a
\* failed write ends the run in Failed, status 1, with no delete-list and
\* no file removed.
C1_DeleteOnlyAfterWrite ==
  /\ (Removed # {} \/ deleted # {} \/ files_to_delete # <<>>) => written
  /\ error = "WriteError" =>
       /\ pc = "Failed" /\ exitCode # 0 /\ ~written
       /\ Removed = {} /\ deleted = {} /\ files_to_delete = <<>>

\* C1 witness: a run that wrote the canonical file and then removed a file.
C1_Witness == pc = "Done" /\ written /\ deleted # {} /\ Removed # {}

\* The files the cleanup's glob found; the ones for which neither a commit
\* time nor a modification time was obtained; the ones with a timestamp.
Discovered == Range(globbed)
UnknownRecency == {p \in Discovered : probes[p].commit = None /\ probes[p].mtime = None}
KnownRecency == Discovered \ UnknownRecency

\* The instant the outside gave for a file with known recency.
Recency(p) == IF probes[p].commit # None THEN probes[p].commit ELSE probes[p].mtime

\* The cleanup is past its sort: it has its two lists, or the sort raised.
SortDone ==
  \/ pc \in {"Partitioned", "RetentionApplied", "Done"}
  \/ pc = "Failed" /\ error = "TypeError"

\* C2: a discovered file with neither a commit time nor a modification time
\* is never in the delete-list and is never removed.
C2_FailOpen ==
  \A p \in UnknownRecency :
    /\ p \notin PathsOf(files_to_delete)
    /\ p \notin deleted
    /\ fs[p].exists

\* C2 witness: a finished run that removed a file and left one without any
\* timestamp in place, the keep-count being smaller than the catalog.
C2_Witness ==
  /\ pc = "Done"
  /\ UnknownRecency # {}
  /\ deleted # {}
  /\ files_to_keep < Cardinality(Discovered)

\* C3: the delete-list and the keep-list are disjoint and together hold
\* every discovered file, the ones with unknown recency included.
C3_Partition ==
  pc \in {"Partitioned", "RetentionApplied", "Done"} =>
    /\ PathsOf(files_to_delete) \cap PathsOf(files_to_keep_list) = {}
    /\ PathsOf(files_to_delete) \cup PathsOf(files_to_keep_list) = Discovered

C5_OrderIndependent ==
  (pc \in {"Partitioned", "RetentionApplied", "Done"} /\ repo_root # NoDir) =>
    \A o \in Orderings(Discovered) :
      LET info == SortNewestFirst(BuildFileInfo(o, probes))
      IN /\ PathsOf(DeleteSlice(info, files_to_keep)) = PathsOf(files_to_delete)
         /\ PathsOf(KeepSlice(info, files_to_keep)) = PathsOf(files_to_keep_list)

\* C6: the canonical dataset written holds every row of every loaded file
\* exactly once, rows being duplicates only when all their fields are equal.
\* (Which of two equal rows is kept cannot be seen in the rows written.)
C6_Deduplicated ==
  pc = "Written" =>
    /\ \A i, j \in DOMAIN Canonical : Canonical[i] = Canonical[j] => i = j
    /\ Range(Canonical) = LoadedRows

\* C6 witness: two loaded files share a row, and two rows with one timestamp
\* and different values are both written.
C6_Witness ==
  /\ pc = "Written"
  /\ \E p, q \in LoadedFiles : p # q /\ Range(fs0[p].rows) \cap Range(fs0[q].rows) # {}
  /\ \E i, j \in DOMAIN Canonical :
       Canonical[i].t = Canonical[j].t /\ Canonical[i].v # Canonical[j].v

\* C7: in the canonical dataset written, every two adjacent rows a, b have
\* timestamps with a.timestamp <= b.timestamp.
C7_Ordered ==
  pc = "Written" =>
    \A i \in 1..(Len(Canonical) - 1) :
      /\ Canonical[i].t # NaN
      /\ Canonical[i + 1].t # NaN
      /\ Canonical[i].t <= Canonical[i + 1].t

\* C8: the sort is stable: two written rows with equal timestamps are in the
\* order of their first occurrences in the concatenation.
C8_Stable ==
  pc = "Written" =>
    \A i, j \in DOMAIN Canonical :
      (i < j /\ Canonical[i].t = Canonical[j].t) =>
        FirstAt(ConcatOrder, Canonical[i]) < FirstAt(ConcatOrder, Canonical[j])

\* C9: when no file matches the pattern the run ends in Failed with a
\* non-zero status, the canonical file is not written and no file is removed.
C9_NoFilesFails ==
  (Glob(fs0) = {} /\ pc # "Idle") =>
    /\ pc = "Failed"
    /\ exitCode # 0 /\ exitCode # -1
    /\ ~written
    /\ fs = fs0
    /\ deleted = {}

\* C9 witness: the run over an empty directory has ended.
C9_Witness == Glob(fs0) = {} /\ pc = "Failed" /\ error = "NoFiles"

\* No file of the run yields a row: each is unreadable or has no row.
NoReadableRows == \A p \in Paths : fs0[p].rows = <<>>

\* C10: when no file yields a readable row the run fails (Failed, nothing
\* written, nothing removed); otherwise unreadable files are only skipped
\* and the canonical dataset is built from the rows of the files that load.
C10_EmptyInputFails ==
  /\ (NoReadableRows /\ pc \notin {"Idle", "Merging"}) =>
       pc = "Failed" /\ ~written /\ fs = fs0 /\ deleted = {}
  /\ (~NoReadableRows /\ pc = "Written") => Range(Canonical) = LoadedRows

\* C11: the process ends with a non-zero status exactly when the run ends in
\* Failed and with status 0 when it ends in Done, also in the run that
\* removes nothing and in the run whose commit or push fails.
C11_ExitContract ==
  /\ pc = "Failed" => exitCode \notin {0, -1}
  /\ pc = "Done" => exitCode = 0
  /\ exitCode # -1 => pc \in {"Failed", "Done"}

\* C11 witness: a run that removed nothing, whose commit or push failed, has
\* ended with status 0.
C11_Witness == pc = "Done" /\ pushError /\ deleted = {} /\ exitCode = 0

\* The file_info entries of one file.
EntriesOf(p) == {i \in DOMAIN file_info : file_info[i].path = p}

\* C12: a tracked file whose commit time is obtained is recorded with it and
\* the source "Git commit time"; a file that is untracked or whose VCS query
\* fails is recorded with its modification time and the filesystem source;
\* a file has no record only if its modification time is unavailable too.
C12_FallbackChain ==
  pc = "Cataloged" =>
    \A p \in Discovered :
      /\ (probes[p].tracked /\ probes[p].commit # None) =>
           \E i \in EntriesOf(p) :
             /\ file_info[i].ts.t = probes[p].commit
             /\ file_info[i].source = GitSource
      /\ ((~probes[p].tracked \/ probes[p].commit = None)
            /\ probes[p].mtime # None) =>
           \E i \in EntriesOf(p) :
             /\ file_info[i].ts.t = probes[p].mtime
             /\ file_info[i].source = FsSource
      /\ EntriesOf(p) = {} => p \in UnknownRecency

C14_DeleteErrorNonFatal ==
  /\ pc \in {"RetentionApplied", "Done"} =>
       /\ deleteErrors \cup deleted = PathsOf(files_to_delete)
       /\ deleteErrors \cap deleted = {}
       /\ \A p \in deleteErrors : fs[p].exists
       /\ \A p \in deleted : ~fs[p].exists
  /\ deleteErrors # {} =>
       /\ pc \in {"RetentionApplied", "Done"}
       /\ exitCode \in {-1, 0}
  /\ pc = "RetentionApplied" => ENABLED Finish
  /\ pc = "Done" => exitCode = 0

\* C14 witness: a run in which one removal failed and another succeeded has
\* ended in Done.
C14_Witness ==
  pc = "Done" /\ deleteErrors # {} /\ deleted # {} /\ exitCode = 0

\* C15: a row without a valid timestamp is dropped and does not fail the
\* run: the written canonical dataset holds exactly the loaded rows whose
\* timestamp is valid.
C15_InvalidTimestampDropped ==
  pc = "Written" =>
    /\ \A i \in DOMAIN Canonical : Canonical[i].t # NaN
    /\ Range(Canonical) = {r \in LoadedRows : r.t # NaN}

\* C16: under the age policy with cutoff now - H a catalogued file is in the
\* delete-list exactly when its timestamp is strictly older than the cutoff;
\* a file whose timestamp equals the cutoff is kept.
C16_AgeBoundary ==
  (cutoff # None /\ pc \in {"Partitioned", "RetentionApplied", "Done"}) =>
    \A i \in DOMAIN file_info :
      /\ file_info[i].path \in PathsOf(files_to_delete)
           <=> file_info[i].ts.t < cutoff
      /\ file_info[i].path \in PathsOf(files_to_keep_list)
           <=> file_info[i].ts.t >= cutoff
      /\ file_info[i].path \in deleted => file_info[i].ts.t < cutoff

\* C16 witness: a file exactly at the cutoff was kept while an older one was
\* removed.
C16_Witness ==
  /\ pc = "Done" /\ cutoff # None
  /\ \E i, j \in DOMAIN file_info :
       /\ file_info[i].ts.t = cutoff
       /\ file_info[i].path \in PathsOf(files_to_keep_list)
       /\ fs[file_info[i].path].exists
       /\ file_info[j].ts.t < cutoff
       /\ file_info[j].path \in deleted

\* C17: merging a set of files that also contains the canonical output of an
\* earlier merge of the same snapshot files writes that same output again:
\* the same rows in the same order.
C17_Idempotent == pc = "Written" => Canonical = fs0[Combined].rows

\* C18: the cleanup never puts the canonical file in its delete-list and
\* never removes it: once written it is there for the rest of the run.
C18_CanonicalNeverDeleted ==
  /\ Combined \notin PathsOf(files_to_delete)
  /\ Combined \notin deleted
  /\ (written /\ pc # "Failed") => fs[Combined].exists

\* C19: a snapshot file the run removes was loaded by the merge of this run
\* and all its rows are in the canonical dataset written; a file the merge
\* skipped because it failed to load is not removed.
C19_NoReadingLost ==
  /\ \A p \in deleted \cap SensorFiles :
       /\ p \in LoadedFiles
       /\ written
       /\ Range(fs0[p].rows) \subseteq Range(combined)
  /\ readErrors \cap deleted = {}

\* C20: the cleanup leaves the working directory as it found it: after the
\* catalog is built, whether or not a repository root was found and
\* whatever the VCS queries did, the process is in the directory it entered
\* the cleanup in, and it is there when files are removed and when the
\* cleanup returns.
C20_CwdRestored ==
  /\ (pc \in {"Cataloged", "Partitioned", "RetentionApplied", "Done"}
        \/ error = "TypeError") =>
       cwd = original_cwd /\ cwd = StartDir
  /\ deleted # {} => cwd = StartDir
  /\ cwd # StartDir => pc = "InCleanup" /\ repo_root = RootDir

\* C20 witness: a cleanup that had moved to the repository root has removed
\* a file and returned, the process back in its starting directory.
C20_Witness ==
  pc = "Done" /\ repo_root = RootDir /\ deleted # {} /\ cwd = StartDir

====
